---- MODULE Spec2Model ----
(***************************************************************************)
(* Model of components/style/properties/common_types.rs: the specified     *)
(* value parsers (lengths, percentages, angles, colors, linear-gradient)   *)
(* and the specified-to-computed resolution.                               *)
(*                                                                         *)
(* Numbers.  A CSSFloat carried by a token is modelled as the rational     *)
(* n / ValDen, held as its numerator n.  An Au is an i32.  A float product *)
(* cast with `as i32` is computed exactly and truncated toward zero; when  *)
(* the product does not fit an i32 the cast is undefined behaviour and the *)
(* model lets it produce any of CastUndefined.                             *)
(* An Angle is the pair (pi, rad) standing for                             *)
(*     pi / PiDen * PI  +  rad / ValDen   radians.                         *)
(***************************************************************************)
EXTENDS Integers, Sequences, FiniteSets, TLC

\* ------------------------------------------------------------------ bounds
\* Denominator of the token values: a token value is n / ValDen.
ValDen == 8
\* Longest argument slice the token iterator walks (whitespace included).
MaxLen == 7
\* Most whitespace tokens in the argument slice.
MaxWs == 1

\* --------------------------------------------------------------- constants
\* i32, the representation of Au.
I32Max == 2147483647
I32Min == (-I32Max) - 1

\* AU_PER_* as exact fractions Num / Den.
AU_PER_PX == 60
AU_PER_IN == AU_PER_PX * 96
\* AU_PER_IN / 2.54 = 576000 / 254
AU_PER_CM == <<AU_PER_IN * 100, 254>>
\* AU_PER_IN / 25.4 = 57600 / 254
AU_PER_MM == <<AU_PER_IN * 10, 254>>
AU_PER_PT == AU_PER_IN \div 72
AU_PER_PC == AU_PER_PT * 12

\* Angles: PI is PiDen / PiDen of a half turn.
PiDen == 1800 * ValDen
Angle(p, r) == [pi |-> p, rad |-> r]
PI == Angle(PiDen, 0)
NoAngle == Angle(0, 0)

\* ------------------------------------------------------------------ tokens
\* cssparser::ast::ComponentValue, the shapes this file matches on.
\* value: the numerator of a Number / Dimension / Percentage value;
\* text: the unit of a Dimension, the name of an Ident, the digits of a Hash.
Tok(ty, v, s) == [type |-> ty, value |-> v, text |-> s]
Dimension(v, u) == Tok("Dimension", v, u)
Percentage(v) == Tok("Percentage", v, "")
Number(v) == Tok("Number", v, "")
Ident(s) == Tok("Ident", 0, s)
Hash(s) == Tok("Hash", 0, s)
Comma == Tok("Comma", 0, "")
WhiteSpace == Tok("WhiteSpace", 0, "")
\* Option::None of an Option<&ComponentValue>.
NoToken == Tok("None", 0, "")

\* std::ascii::AsciiExt::to_ascii_lower on the strings that occur in tokens.
to_ascii_lower(s) ==
    CASE s = "TO" -> "to"
      [] s = "Left" -> "left"
      [] s = "TOP" -> "top"
      [] s = "PX" -> "px"
      [] s = "Deg" -> "deg"
      [] s = "AUTO" -> "auto"
      [] s = "None" -> "none"
      [] s = "RED" -> "red"
      [] OTHER -> s

eq_ignore_ascii_case(a, b) == to_ascii_lower(a) = to_ascii_lower(b)

\* ------------------------------------------------------------ i32 and casts
Abs(x) == IF x < 0 THEN -x ELSE x

\* What an out-of-range `float as i32` may produce (undefined behaviour):
\* representatives of the i32 range.
CastUndefined == {I32Min, -1, 0, 1, I32Max}

\* floor(n * num / den) for n >= 0, or -1 when it exceeds I32Max.
\* Computed as q * num + floor(r * num / den) with n = q * den + r, so that no
\* intermediate value leaves the 32-bit integers.
MulDivFloor(n, num, den) ==
    LET q == n \div den
        r == n % den
        low == (r * num) \div den
    IN  IF q > (I32Max - low) \div num THEN -1 ELSE q * num + low

\* (value * ratio) as i32, value = n / ValDen, ratio = num / den:
\* the set of results the cast can produce.
ScaleToI32(n, num, den) ==
    LET m == MulDivFloor(Abs(n), num, den * ValDen)
        q == Abs(n) \div (den * ValDen)
        low == ((Abs(n) % (den * ValDen)) * num) \div (den * ValDen)
        \* floor(|n| * num / (den * ValDen)) = 2^31, which fits when negated
        isMin == /\ (I32Max - low) % num = num - 1
                 /\ q = (I32Max - low) \div num + 1
    IN  IF m # -1 THEN (IF n < 0 THEN {-m} ELSE {m})
        ELSE IF n < 0 /\ isMin THEN {I32Min}
        ELSE CastUndefined

\* Au::scale_by(factor), factor = fnum / fden with fden > 0:
\* Au(((self.0 as f64) * factor) as i32), the set of results of the cast.
Au_scale_by(s, fnum, fden) ==
    IF s = 0 \/ fnum = 0 THEN {0}
    ELSE LET m == MulDivFloor(Abs(s), Abs(fnum), fden)
         IN  IF m = -1 THEN CastUndefined
             ELSE IF (s < 0) # (fnum < 0) THEN {-m} ELSE {m}

\* i32 addition as compiled (two's complement wrap-around).
WrappingAdd(a, b) ==
    IF a >= 0 /\ b >= 0 /\ a > I32Max - b THEN (a + I32Min) + (b + I32Min)
    ELSE IF a < 0 /\ b < 0 /\ a < I32Min - b THEN (a - I32Min) + (b - I32Min)
    ELSE a + b

\* ------------------------------------------------------- specified values
\* One record shape for every specified / computed value and for Err(()):
\* tag: "Err", "Length", "Percentage", "Auto", "None" (the sentinel of
\*      LengthOrPercentageOrNone), "Center", "Left", "Right", "Top", "Bottom";
\* unit: the Length variant ("Au", "Em", "Ex", "Rem", "ServoCharacterWidth");
\* num / den: the number carried (an Au has den = 1).
Val(tag, unit, num, den) == [tag |-> tag, unit |-> unit, num |-> num, den |-> den]
Err == Val("Err", "", 0, 1)
\* Option::None of an Option<LengthOrPercentage>.
NoPosition == Val("Absent", "", 0, 1)
Au(x) == Val("Length", "Au", x, 1)
Em(n) == Val("Length", "Em", n, ValDen)
Ex(n) == Val("Length", "Ex", n, ValDen)
Rem(n) == Val("Length", "Rem", n, ValDen)
ServoCharacterWidth(n) == Val("Length", "ServoCharacterWidth", n, 1)
PercentageLeaf(n, d) == Val("Percentage", "", n, d)
Auto == Val("Auto", "", 0, 1)
NoneSentinel == Val("None", "", 0, 1)

\* Length::from_px
from_px(px_value) == {Au(t) : t \in ScaleToI32(px_value, AU_PER_PX, 1)}

\* Mutant of Length::parse_dimension: the unit "ch" is given an arm that
\* builds the character-width variant.
parse_dimension_Ch(value, unit) ==
    LET u == to_ascii_lower(unit)
    IN  CASE u = "px" -> from_px(value)
          [] u = "in" -> {Au(t) : t \in ScaleToI32(value, AU_PER_IN, 1)}
          [] u = "cm" -> {Au(t) : t \in ScaleToI32(value, AU_PER_CM[1], AU_PER_CM[2])}
          [] u = "mm" -> {Au(t) : t \in ScaleToI32(value, AU_PER_MM[1], AU_PER_MM[2])}
          [] u = "pt" -> {Au(t) : t \in ScaleToI32(value, AU_PER_PT, 1)}
          [] u = "pc" -> {Au(t) : t \in ScaleToI32(value, AU_PER_PC, 1)}
          [] u = "em" -> {Em(value)}
          [] u = "ex" -> {Ex(value)}
          [] u = "rem" -> {Rem(value)}
          [] u = "ch" -> {ServoCharacterWidth(t) : t \in ScaleToI32(value, 1, 1)}
          [] OTHER -> {Err}

\* Length::parse_dimension: the set of results the call can return.
parse_dimension(value, unit) ==
    LET u == to_ascii_lower(unit)
    IN  CASE u = "px" -> from_px(value)
          [] u = "in" -> {Au(t) : t \in ScaleToI32(value, AU_PER_IN, 1)}
          [] u = "cm" -> {Au(t) : t \in ScaleToI32(value, AU_PER_CM[1], AU_PER_CM[2])}
          [] u = "mm" -> {Au(t) : t \in ScaleToI32(value, AU_PER_MM[1], AU_PER_MM[2])}
          [] u = "pt" -> {Au(t) : t \in ScaleToI32(value, AU_PER_PT, 1)}
          [] u = "pc" -> {Au(t) : t \in ScaleToI32(value, AU_PER_PC, 1)}
          [] u = "em" -> {Em(value)}
          [] u = "ex" -> {Ex(value)}
          [] u = "rem" -> {Rem(value)}
          [] OTHER -> {Err}

\* Mutant of Length::parse_internal: the zero Number is put under the sign
\* guard like the Dimension.
Length_parse_internal_ZeroGuarded(input, negative_ok) ==
    IF input.type = "Dimension" /\ (negative_ok \/ input.value >= 0)
    THEN parse_dimension(input.value, input.text)
    ELSE IF input.type = "Number" /\ negative_ok /\ input.value = 0
    THEN {Au(0)}
    ELSE {Err}

\* Length::parse_internal
Length_parse_internal(input, negative_ok) ==
    IF input.type = "Dimension" /\ (negative_ok \/ input.value >= 0)
    THEN parse_dimension(input.value, input.text)
    ELSE IF input.type = "Number" /\ input.value = 0
    THEN {Au(0)}
    ELSE {Err}

\* LengthOrPercentage::parse_internal
LengthOrPercentage_parse_internal(input, negative_ok) ==
    IF input.type = "Dimension" /\ (negative_ok \/ input.value >= 0)
    THEN parse_dimension(input.value, input.text)
    ELSE IF input.type = "Percentage" /\ (negative_ok \/ input.value >= 0)
    THEN {PercentageLeaf(input.value, 100 * ValDen)}
    ELSE IF input.type = "Number" /\ input.value = 0
    THEN {Au(0)}
    ELSE {Err}

\* LengthOrPercentageOrAuto::parse_internal
LengthOrPercentageOrAuto_parse_internal(input, negative_ok) ==
    IF input.type = "Dimension" /\ (negative_ok \/ input.value >= 0)
    THEN parse_dimension(input.value, input.text)
    ELSE IF input.type = "Percentage" /\ (negative_ok \/ input.value >= 0)
    THEN {PercentageLeaf(input.value, 100 * ValDen)}
    ELSE IF input.type = "Number" /\ input.value = 0
    THEN {Au(0)}
    ELSE IF input.type = "Ident" /\ eq_ignore_ascii_case(input.text, "auto")
    THEN {Auto}
    ELSE {Err}

\* LengthOrPercentageOrNone::parse_internal
LengthOrPercentageOrNone_parse_internal(input, negative_ok) ==
    IF input.type = "Dimension" /\ (negative_ok \/ input.value >= 0)
    THEN parse_dimension(input.value, input.text)
    ELSE IF input.type = "Percentage" /\ (negative_ok \/ input.value >= 0)
    THEN {PercentageLeaf(input.value, 100 * ValDen)}
    ELSE IF input.type = "Number" /\ input.value = 0
    THEN {Au(0)}
    ELSE IF input.type = "Ident" /\ eq_ignore_ascii_case(input.text, "none")
    THEN {NoneSentinel}
    ELSE {Err}

\* The two public entry points of each family: parse (negative_ok = TRUE) and
\* parse_non_negative (negative_ok = FALSE).
ParseFamily(family, input, negative_ok) ==
    CASE family = "Length" -> Length_parse_internal(input, negative_ok)
      [] family = "LengthOrPercentage" ->
            LengthOrPercentage_parse_internal(input, negative_ok)
      [] family = "LengthOrPercentageOrAuto" ->
            LengthOrPercentageOrAuto_parse_internal(input, negative_ok)
      [] family = "LengthOrPercentageOrNone" ->
            LengthOrPercentageOrNone_parse_internal(input, negative_ok)

\* Mutant of LengthOrPercentage::parse: the sign guard of
\* parse_non_negative is applied.
LengthOrPercentage_parse_NonNegative(input) ==
    LengthOrPercentage_parse_internal(input, FALSE)

\* LengthOrPercentage::parse
LengthOrPercentage_parse(input) == LengthOrPercentage_parse_internal(input, TRUE)

\* PositionComponent::parse
PositionComponent_parse(input) ==
    IF input.type = "Dimension"
    THEN parse_dimension(input.value, input.text)
    ELSE IF input.type = "Percentage"
    THEN {PercentageLeaf(input.value, 100 * ValDen)}
    ELSE IF input.type = "Number" /\ input.value = 0
    THEN {Au(0)}
    ELSE IF input.type = "Ident"
    THEN CASE eq_ignore_ascii_case(input.text, "center") -> {Val("Center", "", 0, 1)}
           [] eq_ignore_ascii_case(input.text, "left") -> {Val("Left", "", 0, 1)}
           [] eq_ignore_ascii_case(input.text, "right") -> {Val("Right", "", 0, 1)}
           [] eq_ignore_ascii_case(input.text, "top") -> {Val("Top", "", 0, 1)}
           [] eq_ignore_ascii_case(input.text, "bottom") -> {Val("Bottom", "", 0, 1)}
           [] OTHER -> {Err}
    ELSE {Err}

\* PositionComponent::to_length_or_percentage
to_length_or_percentage(self) ==
    CASE self.tag = "Length" -> self
      [] self.tag = "Percentage" -> self
      [] self.tag = "Center" -> PercentageLeaf(1, 2)
      [] self.tag \in {"Left", "Top"} -> PercentageLeaf(0, 1)
      [] self.tag \in {"Right", "Bottom"} -> PercentageLeaf(1, 1)

\* Show for Length: the format string written, or "panic" for panic!().
Length_fmt(self) ==
    CASE self.unit = "Au" -> "{}"
      [] self.unit = "Em" -> "{}em"
      [] self.unit = "Ex" -> "{}ex"
      [] self.unit = "Rem" -> "{}rem"
      [] self.unit = "ServoCharacterWidth" -> "panic"

\* Show for LengthOrPercentage, LengthOrPercentageOrAuto and
\* LengthOrPercentageOrNone: a Length is written by Show for Length.
LengthOrPercentage_fmt(self) ==
    CASE self.tag = "Length" -> Length_fmt(self)
      [] self.tag = "Percentage" -> "{}%"
      [] self.tag = "Auto" -> "auto"
      [] self.tag = "None" -> "none"

\* Angle::parse_dimension: Err is reported as ok = FALSE.
Angle_parse_dimension(value, unit) ==
    IF eq_ignore_ascii_case(unit, "deg")
    THEN [ok |-> TRUE, angle |-> Angle(value * 10, 0)]
    ELSE IF eq_ignore_ascii_case(unit, "grad")
    THEN [ok |-> TRUE, angle |-> Angle(value * 9, 0)]
    ELSE IF eq_ignore_ascii_case(unit, "rad")
    THEN [ok |-> TRUE, angle |-> Angle(0, value)]
    ELSE IF eq_ignore_ascii_case(unit, "turn")
    THEN [ok |-> TRUE, angle |-> Angle(value * 2 * PiDen, 0)]
    ELSE [ok |-> FALSE, angle |-> NoAngle]

\* cssparser::Color::parse (external): named colors and hex digits.
\* "" stands for Err(()).
Color_parse(component_value) ==
    IF component_value.type = "Ident"
    THEN CASE to_ascii_lower(component_value.text) = "red" -> "rgb(255, 0, 0)"
           [] to_ascii_lower(component_value.text) = "blue" -> "rgb(0, 0, 255)"
           [] OTHER -> ""
    ELSE IF component_value.type = "Hash"
    THEN CASE component_value.text = "f00" -> "rgb(255, 0, 0)"
           [] component_value.text = "00f" -> "rgb(0, 0, 255)"
           [] OTHER -> ""
    ELSE ""

\* Mutant of CSSColor::parse: the authored text is kept for every token
\* shape, not only for Ident.
CSSColor_parse_AuthoredAlways(component_value) ==
    LET parsed == Color_parse(component_value)
    IN  IF parsed = ""
        THEN [ok |-> FALSE, parsed |-> "", authored |-> ""]
        ELSE [ok |-> TRUE, parsed |-> parsed, authored |-> component_value.text]

\* CSSColor::parse: ok = FALSE is Err(()); authored = "" is Option::None.
CSSColor_parse(component_value) ==
    LET parsed == Color_parse(component_value)
    IN  IF parsed = ""
        THEN [ok |-> FALSE, parsed |-> "", authored |-> ""]
        ELSE [ok |-> TRUE, parsed |-> parsed,
              authored |-> IF component_value.type = "Ident"
                           THEN component_value.text ELSE ""]

\* AngleOrCorner
AngleOf(a) == [kind |-> "Angle", angle |-> a, horizontal |-> "", vertical |-> ""]
Corner(h, v) == [kind |-> "Corner", angle |-> NoAngle, horizontal |-> h, vertical |-> v]
Unset == [kind |-> "Unset", angle |-> NoAngle, horizontal |-> "", vertical |-> ""]

\* specified::ColorStop
ColorStop(c, p) == [color |-> [parsed |-> c.parsed, authored |-> c.authored],
                    position |-> p]

\* specified::LinearGradient
LinearGradient(a, s) == [angle_or_corner |-> a, stops |-> s]

\* #[deriving(PartialEq)] of specified::CSSColor: field by field.
CSSColor_eq(a, b) == a.parsed = b.parsed /\ a.authored = b.authored
\* #[deriving(PartialEq)] of specified::ColorStop
ColorStop_eq(a, b) == CSSColor_eq(a.color, b.color) /\ a.position = b.position
\* #[deriving(PartialEq)] of specified::LinearGradient
LinearGradient_eq(a, b) ==
    /\ a.angle_or_corner = b.angle_or_corner
    /\ Len(a.stops) = Len(b.stops)
    /\ \A i \in 1..Len(a.stops) : ColorStop_eq(a.stops[i], b.stops[i])

\* ------------------------------------------------------------------- state
VARIABLES
    args,                 \* the part of `args` the token iterator has walked
    exhausted,            \* the iterator has returned None
    buffer,               \* BufferedIter.buffer, NoToken when empty
    pushes,               \* push_back calls since the last next()
    pushed,               \* push_back calls so far
    pc,                   \* position in parse_function / parse_color_stop
    token,                \* the token the current match is on
    horizontal, vertical, \* the Options of the `to` loop ("" is None)
    angle_or_corner,
    need_to_parse_comma,
    color,                \* parse_color_stop's color
    stops,                \* the Vec of stops built by parse_comma_separated
    result,               \* "pending", "Ok", "Err", or "Panic" (failed assert)
    call,                 \* the last call of a value parser or resolver
    first                 \* the direction an earlier call of parse_function read

iter == <<args, exhausted, buffer, pushes, pushed>>
locals == <<token, horizontal, vertical, angle_or_corner, need_to_parse_comma,
            color, stops>>
vars == <<args, exhausted, buffer, pushes, pushed, pc, token, horizontal,
          vertical, angle_or_corner, need_to_parse_comma, color, stops, result,
          call, first>>

\* The tokens an argument slice is made of (WhiteSpace apart).
Tokens ==
    { Dimension(90 * ValDen, "deg"), Dimension(-5 * ValDen, "px"),
      Percentage(-25 * ValDen), Number(0), Number(ValDen),
      Ident("to"), Ident("TO"), Ident("top"), Ident("bottom"), Ident("left"),
      Ident("Left"), Ident("right"), Ident("red"), Ident("blue"), Ident("foo"),
      Hash("f00"), Comma }

NoColor == [ok |-> FALSE, parsed |-> "", authored |-> ""]
\* left, right: the operands of a comparison; equal: its result;
\* parsed: the result of CSSColor::parse; shown: the result of fmt.
NoCall == [op |-> "", family |-> "", negative_ok |-> FALSE, input |-> NoToken,
           font_size |-> 0, root_font_size |-> 0, value |-> Err, output |-> Err,
           left |-> NoColor, right |-> NoColor, equal |-> FALSE,
           parsed |-> NoColor, shown |-> ""]

\* No earlier call of parse_function.
NoFirst == [segment |-> <<>>, direction |-> Unset]

Init ==
    /\ args = <<>>
    /\ exhausted = FALSE
    /\ buffer = NoToken
    /\ pushes = 0
    /\ pushed = 0
    /\ pc = "start"
    /\ token = NoToken
    /\ horizontal = ""
    /\ vertical = ""
    /\ angle_or_corner = Unset
    /\ need_to_parse_comma = FALSE
    /\ color = NoColor
    /\ stops = <<>>
    /\ result = "pending"
    /\ call = NoCall
    /\ first = NoFirst

\* ----------------------------------------------------------- token cursor
\* args.skip_whitespace(): the slice without its WhiteSpace tokens.
skip_whitespace(s) == SelectSeq(s, LAMBDA t : t.type # "WhiteSpace")

WsCount(s) == Len(s) - Len(skip_whitespace(s))
\* The whitespace the iterator may skip before its next answer.
WsRuns == IF WsCount(args) < MaxWs THEN {<<>>, <<WhiteSpace>>} ELSE {<<>>}

\* BufferedIter::next returning t: the buffered token if there is one, else
\* the next token of args.skip_whitespace(), else None.  The slice is read
\* only through the iterator, so its tokens are chosen as they are reached.
BufferedIter_next(t) ==
    /\ pushes' = 0
    /\ pushed' = pushed
    /\ buffer' = NoToken
    /\ IF buffer # NoToken
       THEN t = buffer /\ UNCHANGED <<args, exhausted>>
       ELSE \/ /\ t = NoToken
               /\ exhausted' = TRUE
               /\ IF exhausted THEN args' = args
                  ELSE \E w \in WsRuns :
                         Len(args) + Len(w) <= MaxLen /\ args' = args \o w
            \/ /\ ~exhausted
               /\ t \in Tokens
               /\ exhausted' = FALSE
               /\ \E w \in WsRuns :
                     Len(args) + Len(w) + 1 <= MaxLen /\ args' = args \o w \o <<t>>

\* BufferedIter::push_back(value), then continue at `to`:
\* assert!(self.buffer.is_none()); self.buffer = Some(value).
BufferedIter_push_back(value, to) ==
    /\ pushes' = pushes + 1
    /\ pushed' = pushed + 1
    /\ UNCHANGED <<args, exhausted>>
    /\ IF buffer = NoToken
       THEN buffer' = value /\ pc' = to /\ result' = result
       ELSE buffer' = buffer /\ pc' = "done" /\ result' = "Panic"

Return(r) == pc' = "done" /\ result' = r
Goto(to) == pc' = to /\ result' = result

\* --------------------------------------------- LinearGradient::parse_function
\* `match source.next()` of the angle: None, an angle Dimension, `to`,
\* or a token to push back (done by PushBackDefault).
FirstToken ==
    /\ pc = "start"
    /\ \E t \in Tokens \cup {NoToken} :
         /\ BufferedIter_next(t)
         /\ token' = t
         /\ IF t = NoToken
            THEN Return("Err") /\ UNCHANGED <<horizontal, vertical,
                     angle_or_corner, need_to_parse_comma>>
            ELSE IF t.type = "Dimension" /\ Angle_parse_dimension(t.value, t.text).ok
            THEN /\ angle_or_corner' =
                        AngleOf(Angle_parse_dimension(t.value, t.text).angle)
                 /\ need_to_parse_comma' = TRUE
                 /\ Goto("stops")
                 /\ UNCHANGED <<horizontal, vertical>>
            ELSE IF t.type = "Ident" /\ eq_ignore_ascii_case(t.text, "to")
            THEN /\ horizontal' = ""
                 /\ vertical' = ""
                 /\ Goto("to_loop")
                 /\ UNCHANGED <<angle_or_corner, need_to_parse_comma>>
            ELSE /\ Goto("push_default")
                 /\ UNCHANGED <<horizontal, vertical, angle_or_corner,
                                need_to_parse_comma>>
    /\ UNCHANGED <<color, stops, call, first>>

\* Mutant of PushBackDefault: the token is dropped instead of pushed back.
PushBackDefault_Dropped ==
    /\ pc = "push_default"
    /\ Goto("stops")
    /\ angle_or_corner' = AngleOf(PI)
    /\ need_to_parse_comma' = FALSE
    /\ UNCHANGED <<iter, token, horizontal, vertical, color, stops, call, first>>

\* source.push_back(token); (AngleOrCorner::Angle(Angle(PI)), false)
PushBackDefault ==
    /\ pc = "push_default"
    /\ BufferedIter_push_back(token, "stops")
    /\ angle_or_corner' = AngleOf(PI)
    /\ need_to_parse_comma' = FALSE
    /\ UNCHANGED <<token, horizontal, vertical, color, stops, call, first>>

\* Mutant of ToLoop: the arms do not test is_none(), so a later keyword
\* overwrites an axis already set.
ToLoop_Overwrites ==
    /\ pc = "to_loop"
    /\ \E t \in Tokens \cup {NoToken} :
         /\ BufferedIter_next(t)
         /\ token' = t
         /\ IF t = NoToken
            THEN Goto("to_resolve") /\ UNCHANGED <<horizontal, vertical>>
            ELSE IF t.type = "Ident"
            THEN IF eq_ignore_ascii_case(t.text, "top")
                 THEN vertical' = "Top" /\ horizontal' = horizontal
                      /\ Goto("to_loop")
                 ELSE IF eq_ignore_ascii_case(t.text, "bottom")
                 THEN vertical' = "Bottom" /\ horizontal' = horizontal
                      /\ Goto("to_loop")
                 ELSE IF eq_ignore_ascii_case(t.text, "left")
                 THEN horizontal' = "Left" /\ vertical' = vertical
                      /\ Goto("to_loop")
                 ELSE IF eq_ignore_ascii_case(t.text, "right")
                 THEN horizontal' = "Right" /\ vertical' = vertical
                      /\ Goto("to_loop")
                 ELSE Return("Err") /\ UNCHANGED <<horizontal, vertical>>
            ELSE IF t = Comma
            THEN Goto("push_to_comma") /\ UNCHANGED <<horizontal, vertical>>
            ELSE Return("Err") /\ UNCHANGED <<horizontal, vertical>>
    /\ UNCHANGED <<angle_or_corner, need_to_parse_comma, color, stops, call, first>>

\* Mutant of ToLoop: the keywords are compared with ==, not with
\* eq_ignore_ascii_case.
ToLoop_CaseSensitive ==
    /\ pc = "to_loop"
    /\ \E t \in Tokens \cup {NoToken} :
         /\ BufferedIter_next(t)
         /\ token' = t
         /\ IF t = NoToken
            THEN Goto("to_resolve") /\ UNCHANGED <<horizontal, vertical>>
            ELSE IF t.type = "Ident"
            THEN IF t.text = "top" /\ vertical = ""
                 THEN vertical' = "Top" /\ horizontal' = horizontal
                      /\ Goto("to_loop")
                 ELSE IF t.text = "bottom" /\ vertical = ""
                 THEN vertical' = "Bottom" /\ horizontal' = horizontal
                      /\ Goto("to_loop")
                 ELSE IF t.text = "left" /\ horizontal = ""
                 THEN horizontal' = "Left" /\ vertical' = vertical
                      /\ Goto("to_loop")
                 ELSE IF t.text = "right" /\ horizontal = ""
                 THEN horizontal' = "Right" /\ vertical' = vertical
                      /\ Goto("to_loop")
                 ELSE Return("Err") /\ UNCHANGED <<horizontal, vertical>>
            ELSE IF t = Comma
            THEN Goto("push_to_comma") /\ UNCHANGED <<horizontal, vertical>>
            ELSE Return("Err") /\ UNCHANGED <<horizontal, vertical>>
    /\ UNCHANGED <<angle_or_corner, need_to_parse_comma, color, stops, call, first>>

\* One iteration of the `to` loop, up to its push_back.
ToLoop ==
    /\ pc = "to_loop"
    /\ \E t \in Tokens \cup {NoToken} :
         /\ BufferedIter_next(t)
         /\ token' = t
         /\ IF t = NoToken
            THEN Goto("to_resolve") /\ UNCHANGED <<horizontal, vertical>>
            ELSE IF t.type = "Ident"
            THEN IF eq_ignore_ascii_case(t.text, "top") /\ vertical = ""
                 THEN vertical' = "Top" /\ horizontal' = horizontal
                      /\ Goto("to_loop")
                 ELSE IF eq_ignore_ascii_case(t.text, "bottom") /\ vertical = ""
                 THEN vertical' = "Bottom" /\ horizontal' = horizontal
                      /\ Goto("to_loop")
                 ELSE IF eq_ignore_ascii_case(t.text, "left") /\ horizontal = ""
                 THEN horizontal' = "Left" /\ vertical' = vertical
                      /\ Goto("to_loop")
                 ELSE IF eq_ignore_ascii_case(t.text, "right") /\ horizontal = ""
                 THEN horizontal' = "Right" /\ vertical' = vertical
                      /\ Goto("to_loop")
                 ELSE Return("Err") /\ UNCHANGED <<horizontal, vertical>>
            ELSE IF t = Comma
            THEN Goto("push_to_comma") /\ UNCHANGED <<horizontal, vertical>>
            ELSE Return("Err") /\ UNCHANGED <<horizontal, vertical>>
    /\ UNCHANGED <<angle_or_corner, need_to_parse_comma, color, stops, call, first>>

\* Mutant of PushBackToComma: after its push_back the Comma arm does not
\* break but runs into the default arm, which pushes the token back again.
PushBackToComma_FallsThrough ==
    /\ pc = "push_to_comma"
    /\ BufferedIter_push_back(token, "push_default")
    /\ UNCHANGED <<locals, call, first>>

\* Mutant of PushBackToComma: the Comma arm pushes the token back and goes
\* round the loop again instead of breaking.
PushBackToComma_NoBreak ==
    /\ pc = "push_to_comma"
    /\ BufferedIter_push_back(token, "to_loop")
    /\ UNCHANGED <<locals, call, first>>

\* Comma => { source.push_back(token); break }
PushBackToComma ==
    /\ pc = "push_to_comma"
    /\ BufferedIter_push_back(token, "to_resolve")
    /\ UNCHANGED <<locals, call, first>>

\* Mutant of ToResolve: the angles of Top and Bottom are exchanged.
ToResolve_Swapped ==
    /\ pc = "to_resolve"
    /\ IF horizontal = "" /\ vertical = "Top"
       THEN angle_or_corner' = AngleOf(PI) /\ Goto("stops")
       ELSE IF horizontal = "Right" /\ vertical = ""
       THEN angle_or_corner' = AngleOf(Angle(PiDen \div 2, 0)) /\ Goto("stops")
       ELSE IF horizontal = "" /\ vertical = "Bottom"
       THEN angle_or_corner' = AngleOf(Angle(0, 0)) /\ Goto("stops")
       ELSE IF horizontal = "Left" /\ vertical = ""
       THEN angle_or_corner' = AngleOf(Angle(3 * (PiDen \div 2), 0)) /\ Goto("stops")
       ELSE IF horizontal # "" /\ vertical # ""
       THEN angle_or_corner' = Corner(horizontal, vertical) /\ Goto("stops")
       ELSE angle_or_corner' = angle_or_corner /\ Return("Err")
    /\ need_to_parse_comma' = (result' = "pending")
    /\ UNCHANGED <<iter, token, horizontal, vertical, color, stops, call, first>>

\* match (horizontal, vertical) after the loop.
ToResolve ==
    /\ pc = "to_resolve"
    /\ IF horizontal = "" /\ vertical = "Top"
       THEN angle_or_corner' = AngleOf(Angle(0, 0)) /\ Goto("stops")
       ELSE IF horizontal = "Right" /\ vertical = ""
       THEN angle_or_corner' = AngleOf(Angle(PiDen \div 2, 0)) /\ Goto("stops")
       ELSE IF horizontal = "" /\ vertical = "Bottom"
       THEN angle_or_corner' = AngleOf(PI) /\ Goto("stops")
       ELSE IF horizontal = "Left" /\ vertical = ""
       THEN angle_or_corner' = AngleOf(Angle(3 * (PiDen \div 2), 0)) /\ Goto("stops")
       ELSE IF horizontal # "" /\ vertical # ""
       THEN angle_or_corner' = Corner(horizontal, vertical) /\ Goto("stops")
       ELSE angle_or_corner' = angle_or_corner /\ Return("Err")
    /\ need_to_parse_comma' = (result' = "pending")
    /\ UNCHANGED <<iter, token, horizontal, vertical, color, stops, call, first>>

\* Mutant of ParseStops: need_to_parse_comma is not consulted.
ParseStops_NoComma ==
    /\ pc = "stops"
    /\ Goto("stop_color")
    /\ UNCHANGED <<iter, locals, call, first>>

\* `let stops = if need_to_parse_comma { match source.next() ... }`
ParseStops ==
    /\ pc = "stops"
    /\ IF need_to_parse_comma
       THEN \E t \in Tokens \cup {NoToken} :
              /\ BufferedIter_next(t)
              /\ token' = t
              /\ IF t = Comma THEN Goto("stop_color")
                 ELSE IF t = NoToken THEN Goto("check_len")
                 ELSE Return("Err")
       ELSE UNCHANGED <<iter, token>> /\ Goto("stop_color")
    /\ UNCHANGED <<horizontal, vertical, angle_or_corner, need_to_parse_comma,
                   color, stops, call, first>>

\* Mutant of StopColor: a token that is no color is skipped and the next one
\* is tried.
StopColor_SkipsUnparsed ==
    /\ pc = "stop_color"
    /\ \E t \in Tokens \cup {NoToken} :
         /\ BufferedIter_next(t)
         /\ token' = t
         /\ IF t = NoToken
            THEN Return("Err") /\ color' = color
            ELSE IF CSSColor_parse(t).ok
            THEN color' = CSSColor_parse(t) /\ Goto("stop_pos")
            ELSE Goto("stop_color") /\ color' = color
    /\ UNCHANGED <<horizontal, vertical, angle_or_corner, need_to_parse_comma,
                   stops, call, first>>

\* parse_color_stop: the color.
StopColor ==
    /\ pc = "stop_color"
    /\ \E t \in Tokens \cup {NoToken} :
         /\ BufferedIter_next(t)
         /\ token' = t
         /\ IF t = NoToken
            THEN Return("Err") /\ color' = color
            ELSE IF CSSColor_parse(t).ok
            THEN color' = CSSColor_parse(t) /\ Goto("stop_pos")
            ELSE Return("Err") /\ color' = color
    /\ UNCHANGED <<horizontal, vertical, angle_or_corner, need_to_parse_comma,
                   stops, call, first>>

\* parse_color_stop: the position, up to the push_back of a Comma; the stop
\* returned is pushed onto the Vec of parse_comma_separated.
StopPosition ==
    /\ pc = "stop_pos"
    /\ \E t \in Tokens \cup {NoToken} :
         /\ BufferedIter_next(t)
         /\ token' = t
         /\ IF t = NoToken
            THEN stops' = Append(stops, ColorStop(color, NoPosition))
                 /\ Goto("separator")
            ELSE IF t = Comma
            THEN stops' = stops /\ Goto("push_stop_comma")
            ELSE \E position \in LengthOrPercentage_parse(t) :
                   IF position = Err
                   THEN stops' = stops /\ Return("Err")
                   ELSE stops' = Append(stops, ColorStop(color, position))
                        /\ Goto("separator")
    /\ UNCHANGED <<horizontal, vertical, angle_or_corner, need_to_parse_comma,
                   color, call, first>>

\* Mutant of PushBackStopComma: the Comma is consumed, not pushed back.
PushBackStopComma_Consumed ==
    /\ pc = "push_stop_comma"
    /\ Goto("separator")
    /\ stops' = Append(stops, ColorStop(color, NoPosition))
    /\ UNCHANGED <<iter, token, horizontal, vertical, angle_or_corner,
                   need_to_parse_comma, color, call, first>>

\* Comma => { source.push_back(value); None }
PushBackStopComma ==
    /\ pc = "push_stop_comma"
    /\ BufferedIter_push_back(token, "separator")
    /\ stops' = IF result' = "Panic" THEN stops
                ELSE Append(stops, ColorStop(color, NoPosition))
    /\ UNCHANGED <<token, horizontal, vertical, angle_or_corner,
                   need_to_parse_comma, color, call, first>>

\* parsing_utils::parse_comma_separated: after a stop, a Comma and another
\* stop, or the end of the input.
Separator ==
    /\ pc = "separator"
    /\ \E t \in Tokens \cup {NoToken} :
         /\ BufferedIter_next(t)
         /\ token' = t
         /\ IF t = Comma THEN Goto("stop_color")
            ELSE IF t = NoToken THEN Goto("check_len")
            ELSE Return("Err")
    /\ UNCHANGED <<horizontal, vertical, angle_or_corner, need_to_parse_comma,
                   color, stops, call, first>>

\* Mutant of CheckLen: one stop is enough.
CheckLen_AcceptsOne ==
    /\ pc = "check_len"
    /\ IF Len(stops) < 1 THEN Return("Err") ELSE Return("Ok")
    /\ UNCHANGED <<iter, locals, call, first>>

\* if stops.len() < 2 { return Err(()) }  Ok(LinearGradient { .. })
CheckLen ==
    /\ pc = "check_len"
    /\ IF Len(stops) < 2 THEN Return("Err") ELSE Return("Ok")
    /\ UNCHANGED <<iter, locals, call, first>>

Next ==
    \/ FirstToken
    \/ PushBackDefault
    \/ ToLoop
    \/ PushBackToComma
    \/ ToResolve
    \/ ParseStops
    \/ StopColor
    \/ StopPosition
    \/ PushBackStopComma
    \/ Separator
    \/ CheckLen

Spec == Init /\ [][Next]_vars

\* A second call of parse_function on another argument slice, once a first
\* call has read a `to` direction: the tokens that gave the direction and the
\* AngleOrCorner it got are kept for comparison.
ParseAgain ==
    /\ pc = "stops"
    /\ first = NoFirst
    /\ Len(args) >= 1
    /\ LET input == skip_whitespace(args)
           given == SelectSeq(Tail(input), LAMBDA t : t # Comma)
       IN  /\ input[1].type = "Ident"
           /\ eq_ignore_ascii_case(input[1].text, "to")
           /\ first' = [segment |-> given, direction |-> angle_or_corner]
    /\ args' = <<>>
    /\ exhausted' = FALSE
    /\ buffer' = NoToken
    /\ pushes' = 0
    /\ pushed' = 0
    /\ pc' = "start"
    /\ token' = NoToken
    /\ horizontal' = ""
    /\ vertical' = ""
    /\ angle_or_corner' = Unset
    /\ need_to_parse_comma' = FALSE
    /\ UNCHANGED <<color, stops, result, call>>

\* Two calls of parse_function, each up to the direction it reads.
NextPair ==
    \/ FirstToken
    \/ PushBackDefault
    \/ ToLoop
    \/ PushBackToComma
    \/ ToResolve
    \/ ParseAgain
SpecPair == Init /\ [][NextPair]_vars

\* parse_function is one sequential call: it keeps running until it returns.
SpecFair == Init /\ [][Next]_vars /\ WF_vars(Next)

\* ------------------------------------------------- computed::compute_Au_*
\* Mutant of compute_Au_with_font_size: ServoCharacterWidth scales the
\* average advance by value instead of value - 1.
compute_Au_with_font_size_OffByOne(value, reference_font_size, root_font_size) ==
    CASE value.unit = "Au" -> {value.num}
      [] value.unit = "Em" -> Au_scale_by(reference_font_size, value.num, value.den)
      [] value.unit = "Ex" ->
            Au_scale_by(reference_font_size, value.num, value.den * 2)
      [] value.unit = "Rem" -> Au_scale_by(root_font_size, value.num, value.den)
      [] value.unit = "ServoCharacterWidth" ->
            LET max_advance == reference_font_size
            IN  UNION {{WrappingAdd(scaled, max_advance) :
                           scaled \in Au_scale_by(average_advance, value.num, 1)} :
                       average_advance \in Au_scale_by(reference_font_size, 1, 2)}

\* computed::compute_Au_with_font_size: the set of Au the call can return
\* (x_height = 0.5 is the factor 1 / 2).
compute_Au_with_font_size(value, reference_font_size, root_font_size) ==
    CASE value.unit = "Au" -> {value.num}
      [] value.unit = "Em" -> Au_scale_by(reference_font_size, value.num, value.den)
      [] value.unit = "Ex" ->
            Au_scale_by(reference_font_size, value.num, value.den * 2)
      [] value.unit = "Rem" -> Au_scale_by(root_font_size, value.num, value.den)
      [] value.unit = "ServoCharacterWidth" ->
            LET max_advance == reference_font_size
            IN  UNION {{WrappingAdd(scaled, max_advance) :
                           scaled \in Au_scale_by(average_advance, value.num - 1, 1)} :
                       average_advance \in Au_scale_by(reference_font_size, 1, 2)}


\* ------------------------------------------- computed::LinearGradient::compute
\* computed::Context: the two fields the value functions read.
Context(font_size, root_font_size) ==
    [font_size |-> font_size, root_font_size |-> root_font_size]

\* computed::compute_CSSColor
compute_CSSColor(value, context) == value.parsed

\* computed::compute_Au
compute_Au(value, context) ==
    compute_Au_with_font_size(value, context.font_size, context.root_font_size)

\* Mutant of compute_LengthOrPercentage: a percentage is resolved against the
\* font size instead of being passed through.
compute_LengthOrPercentage_Resolved(value, context) ==
    IF value.tag = "Length"
    THEN {Au(a) : a \in compute_Au(value, context)}
    ELSE {Au(a) : a \in Au_scale_by(context.font_size, value.num, value.den)}

\* computed::compute_LengthOrPercentage: the set of values the call can return.
compute_LengthOrPercentage(value, context) ==
    IF value.tag = "Length"
    THEN {Au(a) : a \in compute_Au(value, context)}
    ELSE {value}

\* The closure mapped over the stops by computed::LinearGradient::compute.
compute_ColorStop(stop, context) ==
    {[color |-> stop.color.parsed, position |-> p] :
        p \in IF stop.position = NoPosition
              THEN {NoPosition}
              ELSE compute_LengthOrPercentage(stop.position, context)}

\* stops.into_iter().map(..).collect()
RECURSIVE compute_stops(_, _)
compute_stops(list, context) ==
    IF list = <<>>
    THEN {<<>>}
    ELSE {<<h>> \o t : h \in compute_ColorStop(Head(list), context),
                       t \in compute_stops(Tail(list), context)}

\* computed::LinearGradient::compute: the set of gradients the call can return.
LinearGradient_compute(value, context) ==
    {[angle_or_corner |-> value.angle_or_corner, stops |-> st] :
        st \in compute_stops(value.stops, context)}

\* ------------------------------------------- calls of the value functions
\* The value parsers and resolvers are pure: a behaviour makes one call, on
\* inputs drawn from the sets below.
\* Largest small value numerator, font size and character count tried.
MaxValue == 12
MaxFont == 12
MaxChars == 4

\* 40000000 (px, in, ...): a length whose Au value does not fit an i32.
BigValue == 40000000 * ValDen
ValueNumerators ==
    (-MaxValue..MaxValue) \cup {-127, 127, 10 * ValDen, BigValue}
Units == {"px", "PX", "in", "cm", "mm", "pt", "pc", "em", "ex", "rem", "ch", "deg",
          "foo"}
Families == {"Length", "LengthOrPercentage", "LengthOrPercentageOrAuto",
             "LengthOrPercentageOrNone"}
ValueTokens ==
    {Dimension(v, u) : v \in ValueNumerators, u \in Units}
    \cup {Percentage(v) : v \in ValueNumerators}
    \cup {Number(v) : v \in {-ValDen, -1, 0, 1, ValDen}}
    \cup {Ident("auto"), Ident("AUTO"), Ident("none"), Ident("None"), Ident("red"),
          Ident("foo"), Hash("f00"), Comma}
\* The tokens given to PositionComponent::parse.
PositionTokens ==
    ValueTokens \cup {Ident("center"), Ident("left"), Ident("Left"), Ident("right"),
                      Ident("top"), Ident("TOP"), Ident("bottom")}
\* Font sizes are computed from non-negative lengths.
FontSizes == (0..MaxFont) \cup {600, 601, 1073741824, I32Max}
Lengths ==
    {ServoCharacterWidth(n) : n \in 0..MaxChars}
    \cup {Em(v) : v \in {-ValDen, 0, 3, 2 * ValDen}}
    \cup {Ex(v) : v \in {3, 2 * ValDen}}
    \cup {Rem(v) : v \in {3, 2 * ValDen}}
    \cup {Au(x) : x \in {-60, 0, 60}}

\* A call of parse (negative_ok) or parse_non_negative of one of the families.
CallParse ==
    /\ call = NoCall
    /\ \E family \in Families, negative_ok \in BOOLEAN, input \in ValueTokens :
         \E output \in ParseFamily(family, input, negative_ok) :
            call' = [NoCall EXCEPT !.op = "parse", !.family = family,
                        !.negative_ok = negative_ok, !.input = input,
                        !.output = output]
    /\ UNCHANGED <<iter, pc, locals, result, first>>

\* A call of Length::parse_dimension(value, unit).
CallParseDimension ==
    /\ call = NoCall
    /\ \E value \in ValueNumerators, unit \in Units :
         \E output \in parse_dimension(value, unit) :
            call' = [NoCall EXCEPT !.op = "parse_dimension",
                        !.input = Dimension(value, unit), !.output = output]
    /\ UNCHANGED <<iter, pc, locals, result, first>>

\* A call of compute_Au_with_font_size(value, reference_font_size, root_font_size).
CallComputeAu ==
    /\ call = NoCall
    /\ \E value \in Lengths, reference_font_size \in FontSizes,
          root_font_size \in {600, 960} :
         \E output \in compute_Au_with_font_size(value, reference_font_size,
                                                 root_font_size) :
            call' = [NoCall EXCEPT !.op = "compute_Au_with_font_size",
                        !.value = value, !.font_size = reference_font_size,
                        !.root_font_size = root_font_size, !.output = Au(output)]
    /\ UNCHANGED <<iter, pc, locals, result, first>>

\* A call of PositionComponent::parse(input).
CallParsePosition ==
    /\ call = NoCall
    /\ \E input \in PositionTokens :
         \E output \in PositionComponent_parse(input) :
            call' = [NoCall EXCEPT !.op = "PositionComponent::parse",
                        !.input = input, !.output = output]
    /\ UNCHANGED <<iter, pc, locals, result, first>>

\* The value a parser returned is serialized: fmt of the Length or of the
\* LengthOrPercentage family (a PositionComponent through
\* to_length_or_percentage).
Serialize ==
    /\ call.op \in {"parse", "parse_dimension", "PositionComponent::parse"}
    /\ call.output # Err
    /\ call.shown = ""
    /\ call' = [call EXCEPT !.shown =
                    IF call.op = "PositionComponent::parse"
                    THEN LengthOrPercentage_fmt(to_length_or_percentage(call.output))
                    ELSE LengthOrPercentage_fmt(call.output)]
    /\ UNCHANGED <<iter, pc, locals, result, first>>

\* A call of fmt on a specified Length.
CallFmt ==
    /\ call = NoCall
    /\ \E value \in Lengths :
         call' = [NoCall EXCEPT !.op = "fmt", !.value = value,
                     !.shown = Length_fmt(value)]
    /\ UNCHANGED <<iter, pc, locals, result, first>>

\* The specified gradients given to computed::LinearGradient::compute.
GradientColors == {CSSColor_parse(t) : t \in {Ident("RED"), Ident("blue"), Hash("f00")}}
GradientPositions ==
    {NoPosition, PercentageLeaf(-25 * ValDen, 100 * ValDen), Au(-300), Em(2 * ValDen)}
GradientStops ==
    {ColorStop(c, p) : c \in GradientColors, p \in GradientPositions}
Gradients ==
    {LinearGradient(a, <<s1, s2>>) :
        a \in {AngleOf(PI), Corner("Left", "Top")},
        s1 \in GradientStops, s2 \in GradientStops}
    \cup {LinearGradient(AngleOf(PI), <<s1, s2, s3>>) :
            s1 \in {ColorStop(CSSColor_parse(Ident("RED")), NoPosition)},
            s2 \in GradientStops, s3 \in GradientStops}

\* A call of computed::LinearGradient::compute(value, context).
CallComputeGradient ==
    /\ call = NoCall
    /\ \E value \in Gradients, font_size \in {0, 960, I32Max} :
         \E output \in LinearGradient_compute(value, Context(font_size, 960)) :
            call' = [NoCall EXCEPT !.op = "LinearGradient::compute",
                        !.font_size = font_size, !.root_font_size = 960,
                        !.left = value, !.right = output]
    /\ UNCHANGED <<iter, pc, locals, result, first>>

\* The tokens given to the color functions.
ColorTokens == {Ident("red"), Ident("RED"), Ident("blue"), Ident("foo"),
                Hash("f00"), Hash("00f"), Hash("xyz"), Number(0), Comma,
                Dimension(ValDen, "px")}
ParsedColors == {CSSColor_parse(t) : t \in {u \in ColorTokens : CSSColor_parse(u).ok}}
StopPositions == {NoPosition, PercentageLeaf(50 * ValDen, 100 * ValDen), Au(60)}

\* A call of CSSColor::parse(component_value).
CallColorParse ==
    /\ call = NoCall
    /\ \E component_value \in ColorTokens :
         call' = [NoCall EXCEPT !.op = "CSSColor::parse", !.input = component_value,
                     !.parsed = CSSColor_parse(component_value)]
    /\ UNCHANGED <<iter, pc, locals, result, first>>

\* a == b on two specified CSSColor values, each from CSSColor::parse.
CallColorEq ==
    /\ call = NoCall
    /\ \E a \in ParsedColors, b \in ParsedColors :
         call' = [NoCall EXCEPT !.op = "CSSColor::eq", !.left = a, !.right = b,
                     !.equal = CSSColor_eq(a, b)]
    /\ UNCHANGED <<iter, pc, locals, result, first>>

\* a == b on two specified gradients of two stops with the same direction
\* and the same positions.
CallGradientEq ==
    /\ call = NoCall
    /\ \E a1 \in ParsedColors, a2 \in ParsedColors, b1 \in ParsedColors,
          b2 \in ParsedColors, p \in StopPositions :
         LET a == LinearGradient(AngleOf(PI), <<ColorStop(a1, NoPosition), ColorStop(a2, p)>>)
             b == LinearGradient(AngleOf(PI), <<ColorStop(b1, NoPosition), ColorStop(b2, p)>>)
         IN  call' = [NoCall EXCEPT !.op = "LinearGradient::eq", !.left = a,
                         !.right = b, !.equal = LinearGradient_eq(a, b)]
    /\ UNCHANGED <<iter, pc, locals, result, first>>

NextValues ==
    \/ CallParse
    \/ CallParseDimension
    \/ CallComputeAu
    \/ CallParsePosition
    \/ Serialize
    \/ CallFmt
    \/ CallComputeGradient
    \/ CallColorParse
    \/ CallColorEq
    \/ CallGradientEq

SpecValues == Init /\ [][NextValues]_vars

\* ------------------------------------------------------------------ claims
\* The argument tokens the parser has been given, whitespace skipped.
Input == skip_whitespace(args)

IsAngleDimension(t) ==
    t.type = "Dimension" /\ to_ascii_lower(t.text) \in {"deg", "grad", "rad", "turn"}
IsTo(t) == t.type = "Ident" /\ to_ascii_lower(t.text) = "to"
IsColor(t) == Color_parse(t) # ""
\* The gradient starts with an explicit direction.
ExplicitDirection == Len(Input) >= 1 /\ (IsAngleDimension(Input[1]) \/ IsTo(Input[1]))
DefaultDirection == Len(Input) >= 1 /\ ~IsAngleDimension(Input[1]) /\ ~IsTo(Input[1])

\* In the `to` form: the index of the last token of the run of identifiers
\* that follows `to` (1 when there is none).
ToRunEnd ==
    LET ends == {k \in 1..Len(Input) : \A i \in 2..k : Input[i].type = "Ident"}
    IN  CHOOSE k \in ends : \A j \in ends : j <= k
\* The identifiers given after `to`, lower-cased, as a sequence and as a set.
ToKeywords == [i \in 1..(ToRunEnd - 1) |-> to_ascii_lower(Input[i + 1].text)]
ToKeywordSet == {ToKeywords[i] : i \in 1..Len(ToKeywords)}
\* The token that follows the explicit direction (NoToken: none was given).
AfterDirection ==
    LET k == IF IsTo(Input[1]) THEN ToRunEnd ELSE 1
    IN  IF Len(Input) > k THEN Input[k + 1] ELSE NoToken

\* C1: a gradient returned by parse_function has at least 2 stops; a parse that
\* produced fewer than 2 stops ends in an error.
C1_AtLeastTwoStops ==
    /\ result = "Ok" => Len(stops) >= 2
    /\ (pc = "done" /\ Len(stops) < 2) => result = "Err"

\* One well-formed stop after an explicit direction, then the end of input.
C1_Witness ==
    /\ pc = "done" /\ result = "Err" /\ exhausted
    /\ ExplicitDirection
    /\ Len(stops) = 1
    /\ Len(Input) >= 3 /\ IsColor(Input[Len(Input)]) /\ Input[Len(Input) - 1] = Comma

\* C2: push_back is never called while the lookahead slot is occupied: there
\* is a next() between any two push_back calls, and the assert never fails.
C2_NoDoublePushback == pushes <= 1 /\ result # "Panic"

\* A successful parse that pushed back three times.
C2_Witness == result = "Ok" /\ pushed >= 3

\* C3: after an explicit direction, a parse whose next token is not a Comma
\* (another token, or the end of input) ends in an error.
C3_CommaMandatory ==
    (pc = "done" /\ ExplicitDirection /\ AfterDirection # Comma) => result = "Err"

\* An angle followed by a color without the comma between them.
C3_Witness ==
    /\ pc = "done" /\ result = "Err"
    /\ ExplicitDirection /\ IsAngleDimension(Input[1])
    /\ Len(Input) = 2 /\ IsColor(Input[2])

\* color (Comma color)+
IsColorList ==
    /\ Len(Input) >= 3 /\ Len(Input) % 2 = 1
    /\ \A i \in 1..Len(Input) :
          IF i % 2 = 1 THEN IsColor(Input[i]) ELSE Input[i] = Comma

\* C4: a first token that is neither an angle Dimension nor `to` is pushed
\* back with direction Angle(PI) and no comma required, and is the first token
\* stop parsing reads; color (Comma color)+ parses to Angle(PI) and one stop
\* per color, in order, without positions.
C4_DefaultDirection ==
    /\ (DefaultDirection /\ pc \notin {"start", "push_default"}) =>
          angle_or_corner = AngleOf(PI) /\ ~need_to_parse_comma
    /\ (DefaultDirection /\ pc \in {"stops", "stop_color"} /\ stops = <<>>) =>
          buffer = Input[1]
    /\ (DefaultDirection /\ pc = "stop_pos" /\ stops = <<>>) =>
          token = Input[1] /\ Len(Input) = 1
    /\ (pc = "done" /\ IsColorList) =>
          /\ result = "Ok"
          /\ angle_or_corner = AngleOf(PI)
          /\ Len(stops) = (Len(Input) + 1) \div 2
          /\ \A i \in 1..Len(stops) :
                /\ stops[i].color.parsed = Color_parse(Input[2 * i - 1])
                /\ stops[i].position = NoPosition

\* Three colors, parsed.
C4_Witness == pc = "done" /\ IsColorList /\ Len(Input) = 5 /\ result = "Ok"

\* The direction the keywords of a `to` form stand for.
DirectionOf(keywords) ==
    CASE keywords = {"top"} -> AngleOf(Angle(0, 0))
      [] keywords = {"right"} -> AngleOf(Angle(PiDen \div 2, 0))
      [] keywords = {"bottom"} -> AngleOf(PI)
      [] keywords = {"left"} -> AngleOf(Angle(PiDen + PiDen \div 2, 0))
      [] keywords = {"left", "top"} -> Corner("Left", "Top")
      [] keywords = {"left", "bottom"} -> Corner("Left", "Bottom")
      [] keywords = {"right", "top"} -> Corner("Right", "Top")
      [] keywords = {"right", "bottom"} -> Corner("Right", "Bottom")
      [] OTHER -> Unset

\* C5: in the `to` form the direction is the one the set of keywords given
\* before the Comma stands for, and the comma is then mandatory.
C5_ToDirection ==
    (Len(Input) >= 1 /\ IsTo(Input[1]) /\
     (pc \in {"stops", "stop_color", "stop_pos", "push_stop_comma", "separator",
              "check_len"} \/ result = "Ok")) =>
        /\ DirectionOf(ToKeywordSet) # Unset
        /\ angle_or_corner = DirectionOf(ToKeywordSet)
        /\ need_to_parse_comma

\* `to top left, c, c` parsed to Corner(Left, Top).
C5_Witness ==
    /\ result = "Ok" /\ Len(Input) >= 3 /\ IsTo(Input[1])
    /\ Input[2] = Ident("top") /\ to_ascii_lower(Input[3].text) = "left"
    /\ angle_or_corner = Corner("Left", "Top")

\* In the `to` form: the tokens after `to` and before the first Comma.
ToSegment ==
    LET commas == {k \in 2..Len(Input) : Input[k] = Comma}
        stop == IF commas = {} THEN Len(Input) + 1
                ELSE CHOOSE k \in commas : \A j \in commas : k <= j
    IN  SubSeq(Input, 2, stop - 1)
Count(seq, set) == Cardinality({i \in 1..Len(seq) :
                      seq[i].type = "Ident" /\ to_ascii_lower(seq[i].text) \in set})

\* C6: a `to` form that, before the first Comma or the end of input, gives an
\* axis twice, an identifier that is no direction keyword, a token that is
\* neither an identifier nor a Comma, or no keyword at all, ends in an error
\* (at the offending token; without a keyword, when the direction is resolved).
C6_ToErrors ==
    (Len(Input) >= 1 /\ IsTo(Input[1])) =>
        /\ (\/ Count(ToSegment, {"top", "bottom"}) >= 2
            \/ Count(ToSegment, {"left", "right"}) >= 2
            \/ \E i \in 1..Len(ToSegment) :
                  \/ ToSegment[i].type # "Ident"
                  \/ to_ascii_lower(ToSegment[i].text)
                        \notin {"top", "bottom", "left", "right"})
           => (pc = "done" /\ result = "Err")
        /\ (ToSegment = <<>> /\ pc \notin {"to_loop", "push_to_comma", "to_resolve"})
           => (pc = "done" /\ result = "Err")

\* `to top left top`.
C6_Witness ==
    /\ pc = "done" /\ result = "Err" /\ Len(Input) = 4 /\ IsTo(Input[1])
    /\ Count(ToSegment, {"top", "bottom"}) = 2
    /\ Count(ToSegment, {"left", "right"}) = 1

\* C7: parse_color_stop reads a color and at most one more token; a Comma is
\* pushed back and the stop has no position; at the end of input the stop has
\* no position; any other token is the position if it parses as a
\* LengthOrPercentage, and otherwise the stop and the gradient fail.
C7_StopShape ==
    pc = "separator" =>
        LET stop == stops[Len(stops)]
        IN  /\ stop.color = [parsed |-> color.parsed, authored |-> color.authored]
            /\ token = Comma => (buffer = Comma /\ stop.position = NoPosition)
            /\ token = NoToken =>
                  (buffer = NoToken /\ exhausted /\ stop.position = NoPosition)
            /\ token \notin {Comma, NoToken} =>
                  /\ buffer = NoToken
                  /\ stop.position # Err
                  /\ stop.position \in LengthOrPercentage_parse(token)
C7_StopStep ==
    pc = "stop_pos" =>
        /\ Len(skip_whitespace(args')) <= Len(Input) + 1
        /\ pc' \in {"separator", "push_stop_comma", "done"}
        /\ (token' \notin {Comma, NoToken} /\ Err \in LengthOrPercentage_parse(token'))
              => (pc' = "done" /\ result' = "Err" /\ stops' = stops)
C7_ColorStop == []C7_StopShape /\ [][C7_StopStep]_vars

\* A stop whose color was followed by a Comma, the Comma pushed back.
C7_Witness ==
    /\ pc = "separator" /\ token = Comma /\ buffer = Comma
    /\ stops[Len(stops)].position = NoPosition

\* The units Length::parse_dimension knows.
KnownUnits == {"px", "in", "cm", "mm", "pt", "pc", "em", "ex", "rem"}
HasPercentageLeaf(family) == family # "Length"
SentinelOf(family) ==
    CASE family = "LengthOrPercentageOrAuto" -> "auto"
      [] family = "LengthOrPercentageOrNone" -> "none"
      [] OTHER -> ""

\* C8: in each length family parse_non_negative rejects a Dimension or a
\* Percentage below 0, parse accepts it when the unit is known, a Number equal
\* to 0 is the zero Length in both, and every other token shape is an error in
\* both.
C8_SignGuard ==
    call.op = "parse" =>
        LET t == call.input
            out == call.output
            percent == t.type = "Percentage" /\ HasPercentageLeaf(call.family)
        IN  /\ (t.type = "Dimension" /\ t.value < 0 /\ ~call.negative_ok) => out = Err
            /\ (percent /\ t.value < 0 /\ ~call.negative_ok) => out = Err
            /\ (t.type = "Dimension" /\ t.value < 0 /\ call.negative_ok
                    /\ to_ascii_lower(t.text) \in KnownUnits) => out.tag = "Length"
            /\ (percent /\ t.value < 0 /\ call.negative_ok) =>
                    (out.tag = "Percentage" /\ out.num < 0)
            /\ (t.type = "Number" /\ t.value = 0) => out = Au(0)
            /\ (t.type = "Number" /\ t.value # 0) => out = Err
            /\ (t.type = "Dimension" /\ to_ascii_lower(t.text) \notin KnownUnits) =>
                    out = Err
            /\ (t.type = "Percentage" /\ ~percent) => out = Err
            /\ (t.type = "Ident" /\ to_ascii_lower(t.text) # SentinelOf(call.family)) =>
                    out = Err
            /\ t.type \notin {"Dimension", "Percentage", "Number", "Ident"} => out = Err

\* parse_non_negative of a family with a sentinel rejecting a negative length.
C8_Witness ==
    /\ call.op = "parse" /\ call.family = "LengthOrPercentageOrNone"
    /\ ~call.negative_ok
    /\ call.input.type = "Dimension" /\ call.input.value < 0
    /\ to_ascii_lower(call.input.text) \in KnownUnits
    /\ call.output = Err

\* C9 as stated: ServoCharacterWidth(1) computes to exactly F and
\* ServoCharacterWidth(3) to exactly 2 * F, for every font size F.
C9_CharacterWidth ==
    call.op = "compute_Au_with_font_size" =>
        /\ call.value = ServoCharacterWidth(1) => call.output = Au(call.font_size)
        /\ call.value = ServoCharacterWidth(3) =>
              /\ call.output.num % 2 = 0
              /\ call.output.num \div 2 = call.font_size

\* 2 * (F scaled by 0.5) for F >= 0: F with its lowest bit cut off.
TwiceHalf(F) == F - (F % 2)

\* C9 amended: ServoCharacterWidth(1) computes to exactly F;
\* ServoCharacterWidth(3) computes to 2 * trunc(F / 2) + F in i32 arithmetic,
\* which is 2 * F for an even F and one unit nearer to zero for an odd F.
C9_CharacterWidthTruncated ==
    call.op = "compute_Au_with_font_size" =>
        /\ call.value = ServoCharacterWidth(1) => call.output = Au(call.font_size)
        /\ call.value = ServoCharacterWidth(3) =>
              /\ call.output = Au(WrappingAdd(TwiceHalf(call.font_size), call.font_size))
              /\ (call.font_size % 2 = 0 /\ call.font_size <= I32Max \div 2) =>
                    (call.output.num % 2 = 0 /\ call.output.num \div 2 = call.font_size)
              /\ (call.font_size % 2 = 1 /\ call.font_size <= I32Max \div 2) =>
                    call.output.num = call.font_size + call.font_size - 1

\* ServoCharacterWidth(3) at the odd font size 601: 1201, not 1202.
C9_Witness ==
    /\ call.op = "compute_Au_with_font_size"
    /\ call.value = ServoCharacterWidth(3)
    /\ call.font_size = 601
    /\ call.output = Au(1201)

\* Au per unit of the absolute units, as Num / Den.
RatioOf(unit) ==
    CASE unit = "px" -> <<60, 1>>
      [] unit = "in" -> <<5760, 1>>
      [] unit = "cm" -> <<576000, 254>>
      [] unit = "mm" -> <<57600, 254>>
      [] unit = "pt" -> <<80, 1>>
      [] unit = "pc" -> <<960, 1>>

\* t is n / ValDen * num / den rounded toward zero: |t| is the floor of the
\* magnitude of the product and t has not the opposite sign.
IsTruncation(t, n, num, den) ==
    LET d == den * ValDen
        q == Abs(n) \div d
        low == ((Abs(n) % d) * num) \div d
    IN  /\ n >= 0 => t >= 0
        /\ n <= 0 => t <= 0
        /\ \/ /\ q <= (I32Max - low) \div num
              /\ (IF t > 0 THEN -t ELSE t) = -(q * num + low)
           \/ /\ t = I32Min
              /\ (I32Max - low) % num = num - 1
              /\ q = (I32Max - low) \div num + 1

\* C10: for every value and every absolute unit parse_dimension returns
\* Absolute(t), t the value times the unit ratio rounded toward zero.
C10_Truncation ==
    (call.op = "parse_dimension"
        /\ to_ascii_lower(call.input.text) \in {"px", "in", "cm", "mm", "pt", "pc"}) =>
        /\ call.output.tag = "Length" /\ call.output.unit = "Au"
        /\ IsTruncation(call.output.num, call.input.value,
                        RatioOf(to_ascii_lower(call.input.text))[1],
                        RatioOf(to_ascii_lower(call.input.text))[2])

\* The product n / ValDen * num / den fits an i32.
FitsI32(n, num, den) ==
    LET d == den * ValDen
        low == ((Abs(n) % d) * num) \div d
    IN  Abs(n) \div d <= (I32Max - low) \div num

\* Where the product fits an i32, parse_dimension does truncate toward zero.
TruncatesWhenInRange ==
    (call.op = "parse_dimension"
        /\ to_ascii_lower(call.input.text) \in {"px", "in", "cm", "mm", "pt", "pc"}
        /\ FitsI32(call.input.value, RatioOf(to_ascii_lower(call.input.text))[1],
                   RatioOf(to_ascii_lower(call.input.text))[2])) =>
        IsTruncation(call.output.num, call.input.value,
                     RatioOf(to_ascii_lower(call.input.text))[1],
                     RatioOf(to_ascii_lower(call.input.text))[2])

\* C11: the authored text is excluded from equality: two specified CSSColor
\* values with equal parsed colors are equal, and so are two gradients that
\* differ only in the authored text of their stops.
C11_AuthoredExcluded ==
    /\ (call.op = "CSSColor::eq" /\ call.left.parsed = call.right.parsed) => call.equal
    /\ (call.op = "LinearGradient::eq"
          /\ call.left.angle_or_corner = call.right.angle_or_corner
          /\ Len(call.left.stops) = Len(call.right.stops)
          /\ \A i \in 1..Len(call.left.stops) :
                /\ call.left.stops[i].color.parsed = call.right.stops[i].color.parsed
                /\ call.left.stops[i].position = call.right.stops[i].position)
       => call.equal

\* C12: CSSColor::parse succeeds exactly when the external color parser
\* accepts the token; on success it carries that parser's color and the
\* authored text is the identifier's original text for an Ident and None for
\* every other shape; a rejected token gives Err and no value.
C12_ColorParse ==
    call.op = "CSSColor::parse" =>
        /\ call.parsed.ok <=> Color_parse(call.input) # ""
        /\ call.parsed.ok =>
              /\ call.parsed.parsed = Color_parse(call.input)
              /\ call.parsed.authored # "" <=> call.input.type = "Ident"
              /\ call.input.type = "Ident" => call.parsed.authored = call.input.text
        /\ ~call.parsed.ok => call.parsed = NoColor
C12_Witness ==
    /\ call.op = "CSSColor::parse"
    /\ call.input = Hash("f00")
    /\ call.parsed = [ok |-> TRUE, parsed |-> "rgb(255, 0, 0)", authored |-> ""]

\* C13: serializing a specified Length panics only for ServoCharacterWidth,
\* no parser entry point (the Length and LengthOrPercentage families,
\* PositionComponent, and with them the color-stop position) returns
\* ServoCharacterWidth, and so serializing a parsed value never panics.
ParseOps == {"parse", "parse_dimension", "PositionComponent::parse"}
C13_NoFatalSerialization ==
    /\ call.op = "fmt" =>
          (call.shown = "panic" <=> call.value.unit = "ServoCharacterWidth")
    /\ call.op \in ParseOps =>
          /\ call.output.unit # "ServoCharacterWidth"
          /\ call.shown # "panic"
C13_Witness ==
    /\ call.op = "parse"
    /\ call.family = "LengthOrPercentage"
    /\ call.input = Dimension(-ValDen, "em")
    /\ call.output = Em(-ValDen)
    /\ call.shown = "{}em"

\* C14: the computed gradient has the angle_or_corner of the specified one
\* and as many stops in the same order; each computed stop's color is the
\* specified stop's parsed color, a stop without position stays without, a
\* Percentage position is passed through unchanged and a Length position
\* becomes an absolute length.
C14_StopPreserved(s, c) ==
    /\ c.color = s.color.parsed
    /\ s.position = NoPosition <=> c.position = NoPosition
    /\ s.position.tag = "Percentage" => c.position = s.position
    /\ s.position.tag = "Length" => c.position.tag = "Length" /\ c.position.unit = "Au"
C14_ComputePreserves ==
    call.op = "LinearGradient::compute" =>
        /\ call.right.angle_or_corner = call.left.angle_or_corner
        /\ Len(call.right.stops) = Len(call.left.stops)
        /\ \A i \in 1..Len(call.left.stops) :
              C14_StopPreserved(call.left.stops[i], call.right.stops[i])
C14_Witness ==
    /\ call.op = "LinearGradient::compute"
    /\ call.left.angle_or_corner = Corner("Left", "Top")
    /\ call.left.stops[1] = ColorStop(CSSColor_parse(Ident("RED")), NoPosition)
    /\ call.left.stops[2].position = PercentageLeaf(-25 * ValDen, 100 * ValDen)
    /\ call.right.stops[1] = [color |-> "rgb(255, 0, 0)", position |-> NoPosition]
    /\ call.right.stops[2].position = PercentageLeaf(-25 * ValDen, 100 * ValDen)

\* C15: parse_function terminates on every finite token sequence.  The `to`
\* loop has consumed one token per axis it has set, the stop loop two tokens
\* per stop it has collected, and each read takes either a token of the
\* slice not read before (or its end), or the one token that was pushed back
\* since the last read, which is the token read last.
IsRead ==
    \/ pc \in {"start", "to_loop", "stop_color", "stop_pos", "separator"}
    \/ pc = "stops" /\ need_to_parse_comma
C15_ReadStep ==
    IsRead =>
        IF buffer # NoToken
        THEN /\ pushes = 1
             /\ buffer = token
             /\ buffer = Input[Len(Input)]
             /\ token' = buffer
             /\ Input' = Input
             /\ buffer' = NoToken
        ELSE \/ token' # NoToken /\ Input' = Append(Input, token')
             \/ token' = NoToken /\ Input' = Input /\ exhausted'
C15_LoopBound ==
    /\ pc = "to_loop" =>
          /\ buffer = NoToken
          /\ Len(Input) = 1 + (IF horizontal = "" THEN 0 ELSE 1)
                              + (IF vertical = "" THEN 0 ELSE 1)
    /\ pc = "stop_color" => Len(Input) >= 2 * Len(stops)
    /\ Len(Input) <= MaxLen
C15_Terminates ==
    /\ <>(pc = "done" /\ result \in {"Ok", "Err"})
    /\ []C15_LoopBound
    /\ [][C15_ReadStep]_vars
C15_Witness ==
    /\ pc = "done"
    /\ result = "Ok"
    /\ pushed = 2
    /\ IsTo(Input[1])
    /\ Len(stops) = 2

\* C16: when the first token is a Dimension whose unit is no angle unit, the
\* parse returns Err whatever follows: the token is pushed back with the
\* default direction, read again as the color of the first stop and refused
\* there, before any other token of the slice is read.
NonAngleDimensionFirst ==
    /\ Len(Input) >= 1
    /\ Input[1].type = "Dimension"
    /\ ~Angle_parse_dimension(Input[1].value, Input[1].text).ok
C16_NonAngleDimension ==
    NonAngleDimensionFirst =>
        /\ Len(Input) = 1
        /\ stops = <<>>
        /\ pc \in {"push_default", "stops", "stop_color", "done"}
        /\ pc \in {"stops", "stop_color"} =>
              /\ buffer = Input[1]
              /\ angle_or_corner = AngleOf(PI)
              /\ ~need_to_parse_comma
        /\ pc = "done" =>
              /\ result = "Err"
              /\ pushed = 1
              /\ token = Input[1]
              /\ buffer = NoToken
C16_Witness ==
    /\ NonAngleDimensionFirst
    /\ Input[1] = Dimension(-5 * ValDen, "px")
    /\ pc = "done"
    /\ result = "Err"
    /\ pushed = 1

\* C17: the direction of the `to` form does not depend on the order or the
\* letter case of its keywords: two keyword sequences that name the same
\* axes are both accepted and give equal angle_or_corner values, and a
\* Corner holds the horizontal direction first and the vertical one second.
SameAxes(a, b) ==
    /\ Len(a) = Len(b)
    /\ \A i \in 1..Len(a) : a[i].type = "Ident" /\ b[i].type = "Ident"
    /\ {to_ascii_lower(a[i].text) : i \in 1..Len(a)}
          = {to_ascii_lower(b[i].text) : i \in 1..Len(b)}
C17_OrderAndCase ==
    (/\ first # NoFirst
     /\ pc \in {"stops", "done"}
     /\ Len(Input) >= 1 /\ IsTo(Input[1])
     /\ SameAxes(first.segment, ToSegment))
    => /\ pc = "stops"
       /\ angle_or_corner = first.direction
       /\ angle_or_corner.kind = "Corner" =>
             /\ angle_or_corner.horizontal \in {"Left", "Right"}
             /\ angle_or_corner.vertical \in {"Top", "Bottom"}
\* `to top left` first, then `TO Left top`.
C17_Witness ==
    /\ first.segment = <<Ident("top"), Ident("left")>>
    /\ first.direction = Corner("Left", "Top")
    /\ pc = "stops"
    /\ Input = <<Ident("TO"), Ident("Left"), Ident("top")>>
    /\ angle_or_corner = Corner("Left", "Top")

\* C18: a color-stop position is parsed without sign restriction: after a
\* stop color a negative Dimension with a known length unit or a negative
\* Percentage is taken as the position of the stop, and a gradient whose
\* stops carry such positions parses successfully.
IsNegativePosition(t) ==
    \/ t.type = "Dimension" /\ t.value < 0 /\ to_ascii_lower(t.text) \in KnownUnits
    \/ t.type = "Percentage" /\ t.value < 0
C18_PositionStep ==
    (pc = "stop_pos" /\ IsNegativePosition(token')) =>
        /\ pc' = "separator"
        /\ result' = "pending"
        /\ Len(stops') = Len(stops) + 1
        /\ SubSeq(stops', 1, Len(stops)) = stops
        /\ stops'[Len(stops')].color = [parsed |-> color.parsed, authored |-> color.authored]
        /\ IF token'.type = "Percentage"
           THEN stops'[Len(stops')].position = PercentageLeaf(token'.value, 100 * ValDen)
           ELSE /\ stops'[Len(stops')].position.tag = "Length"
                /\ stops'[Len(stops')].position.num < 0
NegativePositions ==
    /\ Len(Input) = 5
    /\ IsColor(Input[1]) /\ IsNegativePosition(Input[2])
    /\ Input[3] = Comma
    /\ IsColor(Input[4]) /\ IsNegativePosition(Input[5])
C18_Accepted ==
    (pc = "done" /\ NegativePositions) =>
        /\ result = "Ok"
        /\ Len(stops) = 2
        /\ stops[1].position.num < 0
        /\ stops[2].position.num < 0
C18_NegativePosition == []C18_Accepted /\ [][C18_PositionStep]_vars
C18_Witness ==
    /\ pc = "done"
    /\ result = "Ok"
    /\ Input = <<Ident("red"), Dimension(-5 * ValDen, "px"), Comma, Hash("f00"),
                 Percentage(-25 * ValDen)>>
    /\ stops[1].position = Au(-300)
    /\ stops[2].position = PercentageLeaf(-25 * ValDen, 100 * ValDen)

====
